---- MODULE Spec2Model ----
(***************************************************************************)
(* A model of the Mitsubishi heat pump IR controller:                      *)
(*   src/heatpump.py   the HeatPump state, the 18-byte frame codec         *)
(*                     (to_bytes / load_bytes) and the pulse codec         *)
(*                     (encode / _decode_bits / decode)                    *)
(*   src/server.py     the /api/update handler that applies a raw frame,   *)
(*                     the /api/set handler and the receiver loop          *)
(*   src/recordpump.py the recorder: the same loop, and a frame loaded     *)
(*                     into a fresh pump                                   *)
(* Bytes of a frame are numbered 0..17 as in the source; a TLA+ sequence   *)
(* is indexed from 1, so byte k of frame v is v[k+1] (operator B).         *)
(***************************************************************************)
EXTENDS Integers, Sequences, FiniteSets, TLC

VARIABLES
    pump,       \* server.py: the global HeatPump instance
    hp,         \* recordpump.py decode(): the fresh HeatPump() it loads into
    data,       \* the 18-byte frame in flight (to_bytes result, request.json['data'])
    err,        \* "" or the exception the last frame-codec call raised
    pc,         \* position of the frame-codec scenario
    req_bytes,  \* encode(): the frame handed to the pulse encoder
    values,     \* the list of pulse/space timings (encode output, decode input)
    tol,        \* decode(): the tol argument
    mesg,       \* decode(): its outcome, [ret |-> bytes, err |-> exception or ""]
    ppc,        \* position of the pulse-codec scenario
    grabbed,    \* receiver(): the samples read so far
    lirc        \* the device f (LIRC_PATH): how many of its samples have been read

vars == <<pump, hp, data, err, pc, req_bytes, values, tol, mesg, ppc, grabbed, lirc>>
frameVars == <<pump, hp, data, err, pc>>
pulseVars == <<req_bytes, values, tol, mesg, ppc, grabbed, lirc>>

(***************************************************************************)
(* Timing constants, microseconds.                                         *)
(***************************************************************************)
HVAC_MISTSUBISHI_HDR_MARK == 3400
HVAC_MISTSUBISHI_HDR_SPACE == 1750
HVAC_MISTSUBISHI_BIT_MARK == 450
HVAC_MISTSUBISHI_ONE_SPACE == 1300
HVAC_MISTSUBISHI_ZERO_SPACE == 420
HVAC_MISTSUBISHI_RPT_MARK == 440
HVAC_MISTSUBISHI_RPT_SPACE == 17100
\* _decode_bits(values, tol=300) and decode(values, tol=300)
DefaultTol == 300
\* header + 288 bit samples + repeat mark
FRAME_LEN == 291
\* two frames and the repeat space between them
DOUBLE_LEN == 583
\* the clock setting "auto" (the only non-integer value of HeatPump.clock)
CLOCK_AUTO == -1
\* read_clock = None: no clock has been read from a frame yet
CLOCK_NONE == -2

(***************************************************************************)
(* Integer helpers: Python's abs, &, | and sum on bytes.                   *)
(***************************************************************************)
Abs(x) == IF x < 0 THEN -x ELSE x

BitOf(x, s) == (x \div (2 ^ s)) % 2

RECURSIVE AndFrom(_, _, _)
AndFrom(a, b, s) ==
    IF s > 7 THEN 0
    ELSE BitOf(a, s) * BitOf(b, s) * (2 ^ s) + AndFrom(a, b, s + 1)

BitAnd(a, b) == AndFrom(a, b, 0)

BitOr(a, b) == a + b - BitAnd(a, b)

RECURSIVE SumSeq(_)
SumSeq(s) == IF s = <<>> THEN 0 ELSE Head(s) + SumSeq(Tail(s))

Min(S) == CHOOSE x \in S : \A y \in S : x <= y

B(v, k) == v[k + 1]

(***************************************************************************)
(* The HeatPump instance: class attributes are the defaults of a fresh     *)
(* HeatPump().                                                             *)
(***************************************************************************)
DefaultPump ==
    [ on |-> FALSE, isee |-> FALSE, hvac_mode |-> "auto", temp |-> 20,
      wide_vane |-> "middle", fan_speed |-> 0, vane |-> "auto",
      clock |-> CLOCK_AUTO, read_clock |-> CLOCK_NONE, end_time |-> 0,
      start_time |-> 0, prog |-> "none", econo_cool |-> FALSE,
      clean_mode |-> FALSE, plasma |-> FALSE, long_mode |-> FALSE ]

(***************************************************************************)
(* The dictionaries of to_bytes.  A key that is missing raises KeyError.   *)
(***************************************************************************)
HvacByte6 == [auto |-> 32, heat |-> 8, dry |-> 16, cold |-> 24]
HvacByte8 == [auto |-> 6, heat |-> 0, dry |-> 2, cold |-> 6]
WideVaneByte8 ==
    [leftend |-> 16, left |-> 32, middle |-> 48, right |-> 64,
     rightend |-> 80, sides |-> 128, swing |-> 192]
VaneByte9 ==
    [upend |-> 72, up |-> 80, middle |-> 88, down |-> 96, downend |-> 104,
     swing |-> 120, auto |-> 64]

Raise(e) == [ret |-> <<>>, err |-> e]
Return(r) == [ret |-> r, err |-> ""]

(***************************************************************************)
(* to_bytes(self): the 18 bytes of the state, or the exception raised.     *)
(* now is time.localtime() as tm_hour*6 + tm_min//10.                      *)
(***************************************************************************)
Byte9(self) ==
    LET vane == IF (self.econo_cool /\ self.hvac_mode = "cool") \/ self.long_mode
                THEN 64
                ELSE VaneByte9[self.vane]
    IN  BitOr(self.fan_speed, vane)

Byte14(self) ==
    LET econo == IF self.econo_cool /\ self.hvac_mode = "cool" /\ ~self.long_mode
                 THEN 32 ELSE 0
        clean == IF self.clean_mode THEN 4 ELSE 0
    IN  BitOr(econo, clean)

Byte15(self) ==
    LET long_mode == IF self.long_mode THEN 16 ELSE 0
        plasma == IF self.plasma THEN 4 ELSE 0
    IN  BitOr(long_mode, plasma)

to_bytes(self, now) ==
    IF self.hvac_mode \notin DOMAIN HvacByte6 THEN Raise("KeyError")
    ELSE IF ~(self.temp >= 16 /\ self.temp <= 31) THEN Raise("AssertionError")
    ELSE IF self.wide_vane \notin DOMAIN WideVaneByte8 THEN Raise("KeyError")
    ELSE IF ~(self.fan_speed >= 0 /\ self.fan_speed <= 3) THEN Raise("AssertionError")
    ELSE IF self.vane \notin DOMAIN VaneByte9 THEN Raise("KeyError")
    ELSE IF self.clock # CLOCK_AUTO /\ ~(self.clock >= 0 /\ self.clock <= 143)
         THEN Raise("AssertionError")
    ELSE IF ~(self.end_time >= 0 /\ self.end_time <= 143) THEN Raise("AssertionError")
    ELSE IF ~(self.start_time >= 0 /\ self.start_time <= 143) THEN Raise("AssertionError")
    ELSE
      LET ret17 ==
            << 35, 203, 38, 1, 0,
               IF self.on THEN 32 ELSE 0,
               BitOr(IF self.isee THEN 64 ELSE 0, HvacByte6[self.hvac_mode]),
               self.temp - 16,
               BitOr(HvacByte8[self.hvac_mode], WideVaneByte8[self.wide_vane]),
               Byte9(self),
               IF self.clock = CLOCK_AUTO THEN now ELSE self.clock,
               self.end_time,
               self.start_time,
               0,
               Byte14(self),
               Byte15(self),
               0 >>
      IN  Return(Append(ret17, BitAnd(SumSeq(ret17), 255)))

(***************************************************************************)
(* load_bytes(self, values): the bytes are applied field by field, in the  *)
(* order of the source; an exception stops the call and keeps the fields   *)
(* assigned before it.  A stage takes and returns [self, err]: the state   *)
(* so far and the exception raised so far ("" for none).                   *)
(***************************************************************************)
HvacOfByte6 == (32 :> "auto") @@ (8 :> "heat") @@ (16 :> "dry") @@ (24 :> "cold")
WideVaneOfByte8 ==
    (16 :> "leftend") @@ (32 :> "left") @@ (48 :> "middle") @@ (64 :> "right")
    @@ (80 :> "rightend") @@ (128 :> "sides") @@ (192 :> "swing")
HvacAllowedByte8 == (0 :> {"heat"}) @@ (2 :> {"dry"}) @@ (6 :> {"cold", "auto"})
VaneOfByte9 ==
    (72 :> "upend") @@ (80 :> "up") @@ (88 :> "middle") @@ (96 :> "down")
    @@ (104 :> "downend") @@ (120 :> "swing") @@ (0 :> "auto") @@ (64 :> "auto")
ProgOfByte13 == (0 :> "none") @@ (5 :> "start") @@ (3 :> "end") @@ (7 :> "startend")

Fail(s, e) == [self |-> s.self, err |-> e]
Keep(s, p) == [self |-> p, err |-> ""]

\* bytes 0-4: the constant preamble
LoadPreamble(s, v) ==
    IF s.err # "" THEN s
    ELSE IF B(v, 0) = 35 /\ B(v, 1) = 203 /\ B(v, 2) = 38 /\ B(v, 3) = 1 /\ B(v, 4) = 0
         THEN s
         ELSE Fail(s, "AssertionError")

\* byte 5: on or off
LoadByte5(s, v) ==
    IF s.err # "" THEN s
    ELSE IF B(v, 5) = 32 THEN Keep(s, [s.self EXCEPT !.on = TRUE])
    ELSE IF B(v, 5) = 0 THEN Keep(s, [s.self EXCEPT !.on = FALSE])
    ELSE Fail(s, "Unexpected value for byte 5")

\* byte 6: hvac mode and i-see
LoadByte6(s, v) ==
    IF s.err # "" THEN s
    ELSE IF BitAnd(120, B(v, 6)) # B(v, 6) THEN Fail(s, "AssertionError")
    ELSE LET p == [s.self EXCEPT !.isee = (BitAnd(B(v, 6), 64) # 0)]
             k == BitAnd(B(v, 6), 56)
         IN  IF k \notin DOMAIN HvacOfByte6 THEN [self |-> p, err |-> "KeyError"]
             ELSE Keep(s, [p EXCEPT !.hvac_mode = HvacOfByte6[k]])

\* byte 7: temperature
LoadByte7(s, v) ==
    IF s.err # "" THEN s
    ELSE IF BitAnd(15, B(v, 7)) # B(v, 7) THEN Fail(s, "AssertionError")
    ELSE Keep(s, [s.self EXCEPT !.temp = B(v, 7) + 16])

\* byte 8: wide vane, and the hvac mode a second time
LoadByte8(s, v) ==
    IF s.err # "" THEN s
    ELSE IF BitAnd(247, B(v, 8)) # B(v, 8) THEN Fail(s, "AssertionError")
    ELSE LET w == BitAnd(B(v, 8), 240)
             m == BitAnd(B(v, 8), 7)
         IN  IF w \notin DOMAIN WideVaneOfByte8 THEN Fail(s, "KeyError")
             ELSE LET p == [s.self EXCEPT !.wide_vane = WideVaneOfByte8[w]]
                  IN  IF m \notin DOMAIN HvacAllowedByte8
                      THEN [self |-> p, err |-> "KeyError"]
                      ELSE IF p.hvac_mode \notin HvacAllowedByte8[m]
                      THEN [self |-> p, err |-> "AssertionError"]
                      ELSE Keep(s, p)

\* byte 9: fan speed and vane
LoadByte9(s, v) ==
    IF s.err # "" THEN s
    ELSE LET fan_speed == BitAnd(B(v, 9), 7)
             k == BitAnd(B(v, 9), 120)
         IN  IF ~(fan_speed >= 0 /\ fan_speed <= 3) THEN Fail(s, "AssertionError")
             ELSE LET p == [s.self EXCEPT !.fan_speed = fan_speed]
                  IN  IF k \notin DOMAIN VaneOfByte9
                      THEN [self |-> p, err |-> "KeyError"]
                      ELSE Keep(s, [p EXCEPT !.vane = VaneOfByte9[k]])

\* bytes 10-12: clock, end time, start time
LoadTimes(s, v) ==
    IF s.err # "" THEN s
    ELSE IF ~(B(v, 10) >= 0 /\ B(v, 10) <= 143) THEN Fail(s, "AssertionError")
    ELSE LET p10 == [s.self EXCEPT !.read_clock = B(v, 10)]
         IN  IF ~(B(v, 11) >= 0 /\ B(v, 11) <= 143)
             THEN [self |-> p10, err |-> "AssertionError"]
             ELSE LET p11 == [p10 EXCEPT !.end_time = B(v, 11)]
                  IN  IF ~(B(v, 12) >= 0 /\ B(v, 12) <= 143)
                      THEN [self |-> p11, err |-> "AssertionError"]
                      ELSE Keep(s, [p11 EXCEPT !.start_time = B(v, 12)])

\* byte 13: which timers are programmed
LoadByte13(s, v) ==
    IF s.err # "" THEN s
    ELSE IF B(v, 13) \notin DOMAIN ProgOfByte13 THEN Fail(s, "KeyError")
    ELSE Keep(s, [s.self EXCEPT !.prog = ProgOfByte13[B(v, 13)]])

\* byte 14: econo cool and clean mode
LoadByte14(s, v) ==
    IF s.err # "" THEN s
    ELSE IF BitAnd(B(v, 14), 36) # B(v, 14) THEN Fail(s, "AssertionError")
    ELSE LET p == [s.self EXCEPT !.econo_cool = (BitAnd(B(v, 14), 32) # 0),
                                 !.clean_mode = (BitAnd(B(v, 14), 4) # 0)]
         IN  IF p.econo_cool /\ p.hvac_mode # "cool"
             THEN [self |-> p, err |-> "AssertionError"]
             ELSE IF p.econo_cool /\ p.vane # "auto"
             THEN [self |-> p, err |-> "AssertionError"]
             ELSE Keep(s, p)

\* byte 15: plasma and long mode
LoadByte15(s, v) ==
    IF s.err # "" THEN s
    ELSE IF BitAnd(B(v, 15), 28) # B(v, 15) THEN Fail(s, "AssertionError")
    ELSE Keep(s, [s.self EXCEPT !.plasma = (BitAnd(B(v, 15), 4) # 0),
                                !.long_mode = (BitAnd(B(v, 15), 16) # 0)])

\* byte 16 is zero; byte 17, the checksum, is not looked at
LoadByte16(s, v) ==
    IF s.err # "" THEN s
    ELSE IF B(v, 16) # 0 THEN Fail(s, "AssertionError")
    ELSE s

load_bytes(self, v) ==
    LoadByte16(LoadByte15(LoadByte14(LoadByte13(LoadTimes(LoadByte9(LoadByte8(
        LoadByte7(LoadByte6(LoadByte5(LoadPreamble(
            [self |-> self, err |-> ""], v), v), v), v), v), v), v), v), v), v), v)

(***************************************************************************)
(* The pulse codec.  encode(req_bytes) is the list ret of pulse and space  *)
(* durations it builds (the list struct.pack is then applied to); decode   *)
(* takes such a list as read from the device.  Sample i of the source      *)
(* (from 0) is values[i + 1] here.                                         *)
(***************************************************************************)
\* a faulty variant of EncodeBits: the bits of a byte sent from the highest
EncodeBitsHighFirst(bytes) ==
    [i \in 1..288 |->
        IF i % 2 = 1 THEN HVAC_MISTSUBISHI_BIT_MARK
        ELSE LET x == (i \div 2) - 1
             IN  IF BitOf(bytes[(x \div 8) + 1], 7 - (x % 8)) = 0
                 THEN HVAC_MISTSUBISHI_ZERO_SPACE
                 ELSE HVAC_MISTSUBISHI_ONE_SPACE]

\* the 288 samples of the 144 bits: a bit mark, then a zero or a one space,
\* bytes in order and bits from the lowest
EncodeBits(bytes) ==
    [i \in 1..288 |->
        IF i % 2 = 1 THEN HVAC_MISTSUBISHI_BIT_MARK
        ELSE LET x == (i \div 2) - 1
             IN  IF BitOf(bytes[(x \div 8) + 1], x % 8) = 0
                 THEN HVAC_MISTSUBISHI_ZERO_SPACE
                 ELSE HVAC_MISTSUBISHI_ONE_SPACE]

encode(bytes) ==
    IF Len(bytes) # 18 THEN Raise("AssertionError")
    ELSE Return(
           <<HVAC_MISTSUBISHI_HDR_MARK, HVAC_MISTSUBISHI_HDR_SPACE>>
           \o EncodeBits(bytes)
           \o <<HVAC_MISTSUBISHI_RPT_MARK, HVAC_MISTSUBISHI_RPT_SPACE,
                HVAC_MISTSUBISHI_HDR_MARK, HVAC_MISTSUBISHI_HDR_SPACE>>
           \o EncodeBits(bytes)
           \o <<HVAC_MISTSUBISHI_RPT_MARK>>)

\* _decode_bits(values, tol): bit x (from 0) has its mark at values[2x] and
\* its space at values[2x+1] of the source's list
decode_bits(v, t) ==
    LET MarkOk(x) == Abs(HVAC_MISTSUBISHI_BIT_MARK - v[2 * x + 1]) < t
        IsZero(x) == Abs(HVAC_MISTSUBISHI_ZERO_SPACE - v[2 * x + 2]) < t
        IsOne(x) == Abs(HVAC_MISTSUBISHI_ONE_SPACE - v[2 * x + 2]) < t
        Bad == {x \in 0..143 : ~MarkOk(x) \/ (~IsZero(x) /\ ~IsOne(x))}
        bit(x) == IF IsZero(x) THEN 0 ELSE 1
        ret == [k \in 1..18 |->
                  LET x0 == 8 * (k - 1)
                  IN  bit(x0) + 2 * bit(x0 + 1) + 4 * bit(x0 + 2) + 8 * bit(x0 + 3)
                      + 16 * bit(x0 + 4) + 32 * bit(x0 + 5) + 64 * bit(x0 + 6)
                      + 128 * bit(x0 + 7)]
    IN  IF Len(v) # 288 THEN Raise("AssertionError")
        ELSE IF Bad # {}
             THEN IF MarkOk(Min(Bad)) THEN Raise("Bad value")
                  ELSE Raise("AssertionError")
        ELSE IF BitAnd(SumSeq(SubSeq(ret, 1, 17)), 255) # ret[18]
             THEN Raise("Invalid checksum")
        ELSE Return(ret)

\* decode, len(values) == 291: header + data + repeat pulse.  The bits are
\* decoded by _decode_bits(values[2:290]), with its default tol
decode_single(v, t) ==
    IF ~(Abs(HVAC_MISTSUBISHI_HDR_MARK - v[1]) < t * 2) THEN Raise("AssertionError")
    ELSE IF ~(Abs(HVAC_MISTSUBISHI_HDR_SPACE - v[2]) < t * 2)
         THEN Raise("AssertionError")
    ELSE IF ~(Abs(HVAC_MISTSUBISHI_RPT_MARK - v[291]) < t * 2)
         THEN Raise("AssertionError")
    ELSE decode_bits(SubSeq(v, 3, 290), DefaultTol)

\* a faulty variant of decode_double: two halves that both decode are not
\* compared, the first is returned
decode_double_unchecked(v, t) ==
    IF ~(Abs(HVAC_MISTSUBISHI_RPT_SPACE - v[292]) < t * 2) THEN Raise("AssertionError")
    ELSE LET mesg1 == decode_single(SubSeq(v, 1, 291), t)
             mesg2 == decode_single(SubSeq(v, 293, 583), t)
         IN  IF mesg1.err = "" THEN mesg1
             ELSE IF mesg2.err = "" THEN mesg2
             ELSE Raise("No valid codes found")

\* a variant of decode_double that catches the failures of a half except
\* a failed checksum, which it raises
decode_double_strict(v, t) ==
    IF ~(Abs(HVAC_MISTSUBISHI_RPT_SPACE - v[292]) < t * 2) THEN Raise("AssertionError")
    ELSE LET mesg1 == decode_single(SubSeq(v, 1, 291), t)
             mesg2 == decode_single(SubSeq(v, 293, 583), t)
         IN  IF mesg1.err = "Invalid checksum" THEN mesg1
             ELSE IF mesg2.err = "Invalid checksum" THEN mesg2
             ELSE IF mesg1.err = "" /\ mesg2.err # "" THEN mesg1
             ELSE IF mesg1.err # "" /\ mesg2.err = "" THEN mesg2
             ELSE IF mesg1.err = "" /\ mesg2.err = ""
                  THEN IF mesg1.ret = mesg2.ret THEN mesg1
                       ELSE Raise("AssertionError")
             ELSE Raise("No valid codes found")

\* decode, len(values) == 583: both halves are tried and every exception
\* of a half is caught
decode_double(v, t) ==
    IF ~(Abs(HVAC_MISTSUBISHI_RPT_SPACE - v[292]) < t * 2) THEN Raise("AssertionError")
    ELSE LET mesg1 == decode_single(SubSeq(v, 1, 291), t)
             mesg2 == decode_single(SubSeq(v, 293, 583), t)
         IN  IF mesg1.err = "" /\ mesg2.err # "" THEN mesg1
             ELSE IF mesg1.err # "" /\ mesg2.err = "" THEN mesg2
             ELSE IF mesg1.err = "" /\ mesg2.err = ""
                  THEN IF mesg1.ret = mesg2.ret THEN mesg1
                       ELSE Raise("AssertionError")
             ELSE Raise("No valid codes found")

\* a faulty variant of decode_search: range(len(values)-291), which stops one
\* offset short
decode_search_short(v, t) ==
    LET found == {i \in 0..(Len(v) - 292) :
                    /\ Abs(HVAC_MISTSUBISHI_HDR_MARK - v[i + 1]) < t * 2
                    /\ decode_single(SubSeq(v, i + 1, i + 291), t).err = ""}
    IN  IF found = {} THEN Raise("Could not find valid starting pulse")
        ELSE decode_single(SubSeq(v, Min(found) + 1, Min(found) + 291), t)

\* decode, len(values) >= 291: the first offset i in range(len(values)-290)
\* with a header mark whose 291 samples decode; every exception of a
\* candidate is caught
decode_search(v, t) ==
    LET found == {i \in 0..(Len(v) - 291) :
                    /\ Abs(HVAC_MISTSUBISHI_HDR_MARK - v[i + 1]) < t * 2
                    /\ decode_single(SubSeq(v, i + 1, i + 291), t).err = ""}
    IN  IF found = {} THEN Raise("Could not find valid starting pulse")
        ELSE decode_single(SubSeq(v, Min(found) + 1, Min(found) + 291), t)

decode(v, t) ==
    IF Len(v) = DOUBLE_LEN THEN decode_double(v, t)
    ELSE IF Len(v) = FRAME_LEN THEN decode_single(v, t)
    ELSE IF Len(v) >= FRAME_LEN THEN decode_search(v, t)
    ELSE Raise("Incorrect list size")

(***************************************************************************)
(* The frame codec scenario.  A HeatPump in some state is encoded with     *)
(* to_bytes; the frame is loaded into a fresh HeatPump (the recorder), or  *)
(* posted to /api/update, as it is or with one bit changed by the client   *)
(* (the endpoint applies whatever 18 integers the request carries).        *)
(***************************************************************************)
\* hvac_mode as documented (auto/heat/dry/cool) and as the dictionaries spell it
Modes == {"auto", "heat", "dry", "cool", "cold"}
InputVanes == {"auto", "middle", "swing"}
Profiles ==
    { DefaultPump,
      [DefaultPump EXCEPT !.on = TRUE, !.isee = TRUE, !.temp = 31,
                          !.wide_vane = "swing", !.fan_speed = 3, !.clock = 143,
                          !.end_time = 143, !.start_time = 1,
                          !.clean_mode = TRUE, !.plasma = TRUE],
      [DefaultPump EXCEPT !.on = TRUE, !.temp = 16, !.wide_vane = "leftend",
                          !.fan_speed = 1, !.clock = 0, !.start_time = 143] }
PumpInputs ==
    { [q EXCEPT !.hvac_mode = m, !.vane = vn, !.econo_cool = e, !.long_mode = l] :
        q \in Profiles, m \in Modes, vn \in InputVanes,
        e \in BOOLEAN, l \in BOOLEAN }
\* readings of the wall clock, in 10 minute steps since midnight
Clocks == {0, 143}

PulseIdle ==
    /\ req_bytes = <<>>
    /\ values = <<>>
    /\ tol = DefaultTol
    /\ mesg = Raise("")
    /\ ppc = "idle"
    /\ grabbed = <<>>
    /\ lirc = 0

FrameInit ==
    /\ pump \in PumpInputs
    /\ hp = DefaultPump
    /\ data = <<>>
    /\ err = ""
    /\ pc = "start"
    /\ PulseIdle

\* program_heatpump(): pump.encode() builds the frame with to_bytes
ToBytes ==
    /\ pc = "start"
    /\ \E now \in Clocks :
          LET r == to_bytes(pump, now)
          IN  /\ data' = r.ret
              /\ err' = r.err
              /\ pc' = IF r.err = "" THEN "encoded" ELSE "encode_failed"
    /\ UNCHANGED <<pump, hp>>
    /\ UNCHANGED pulseVars

\* the frame with bit s of byte k changed, and the checksum redone or not
FlipBit(v, k, s) ==
    [v EXCEPT ![k + 1] = IF BitOf(v[k + 1], s) = 1 THEN v[k + 1] - 2 ^ s
                         ELSE v[k + 1] + 2 ^ s]
Checksum(v) == SumSeq(SubSeq(v, 1, 17)) % 256
WithChecksum(v) == [v EXCEPT ![18] = Checksum(v)]

\* a client of /api/update builds its own request
Tamper ==
    /\ pc = "encoded"
    /\ \E k \in 5..17, s \in 0..7, fix \in BOOLEAN :
          data' = IF fix THEN WithChecksum(FlipBit(data, k, s))
                  ELSE FlipBit(data, k, s)
    /\ pc' = "tampered"
    /\ UNCHANGED <<pump, hp, err>>
    /\ UNCHANGED pulseVars

\* recordpump.py decode(): hp = HeatPump(); hp.load_bytes(cur)
RecordLoad ==
    /\ pc = "encoded"
    /\ LET r == load_bytes(DefaultPump, data)
       IN  /\ hp' = r.self
           /\ err' = r.err
    /\ pc' = "loaded"
    /\ UNCHANGED <<pump, data>>
    /\ UNCHANGED pulseVars

\* server.py update(): pump.load_bytes(request.json['data'])
Update ==
    /\ pc \in {"encoded", "tampered"}
    /\ LET r == load_bytes(pump, data)
       IN  /\ pump' = r.self
           /\ err' = r.err
    /\ pc' = "updated"
    /\ UNCHANGED <<hp, data>>
    /\ UNCHANGED pulseVars

FrameNext == ToBytes \/ Tamper \/ RecordLoad \/ Update

FrameSpec == FrameInit /\ [][FrameNext]_vars

(***************************************************************************)
(* The pulse codec scenario.  Either a frame is encoded and the pulses     *)
(* decoded again, or a list of samples as the receiver may hand it over    *)
(* is decoded: a single frame with one sample off, two frames around a     *)
(* repeat space (each half sent exactly, or with one sample off), a frame  *)
(* preceded by junk samples.                                               *)
(***************************************************************************)
\* the longest run of junk samples tried below the double-frame length
MaxJunk == 3

Tols == {100, 300, 400}

GoodFrames == {to_bytes(q, now).ret : q \in Profiles, now \in Clocks}
\* preamble and reserved bits as they should be, byte 17 not the checksum
BadSumFrames == {FlipBit(f, 7, 0) : f \in GoodFrames} \cup {FlipBit(f, 17, 0) : f \in GoodFrames}
RoundTripFrames == GoodFrames \cup BadSumFrames

\* the 291 samples of one transmitted frame
Single(f) == SubSeq(encode(f).ret, 1, FRAME_LEN)
\* d = <<i, val>>: sample i (from 0) reads val; i < 0: nothing changed
Distort(h, d) == IF d[1] < 0 THEN h ELSE [h EXCEPT ![d[1] + 1] = d[2]]

HalfFrames == {to_bytes(q, 0).ret : q \in Profiles}
              \cup {FlipBit(to_bytes(DefaultPump, 0).ret, 7, 0)}
HalfDistortions ==
    { <<-1, 0>>,        \* as sent
      <<0, 2800>>,      \* header mark too short
      <<2, 750>>,       \* first bit mark too long
      <<7, 719>>,       \* a zero space, long but within 300
      <<7, 720>>,       \* a space that is neither zero nor one
      <<7, 1300>>,      \* a zero space read as a one: the checksum fails
      <<290, 1040>> }   \* repeat mark too long
Halves == {Distort(Single(f), d) : f \in HalfFrames, d \in HalfDistortions}
Gaps == {<<17100>>, <<16501>>, <<16500>>, <<17100, 0>>}
DoubleInputs == {h1 \o g \o h2 : h1 \in Halves, g \in Gaps, h2 \in Halves}

JunkLens ==
    (1..MaxJunk) \cup
    {DOUBLE_LEN - FRAME_LEN - 1, DOUBLE_LEN - FRAME_LEN, DOUBLE_LEN - FRAME_LEN + 1}
JunkVals == {0, 2800, 3200, 4000, 17100}
Junk(n, a, b) == [i \in 1..n |-> IF i % 2 = 1 THEN a ELSE b]
JunkInputs ==
    {Junk(n, a, b) \o Single(f) :
        n \in JunkLens, a \in JunkVals, b \in JunkVals, f \in GoodFrames}

\* sample 7 is the space of bit 2 of byte 0 (a zero of 0x23), sample 3 the
\* space of bit 0 (a one), sample 6 a bit mark
EdgeOffsets(t) == {t - 1, t, 1 - t, 0 - t}
ToleranceInputs(t) ==
    {Distort(Single(f), <<c[1], c[2] + d>>) :
        f \in GoodFrames, d \in EdgeOffsets(t),
        c \in { <<7, HVAC_MISTSUBISHI_ZERO_SPACE>>,
                <<3, HVAC_MISTSUBISHI_ONE_SPACE>>,
                <<6, HVAC_MISTSUBISHI_BIT_MARK>> }}

FrameIdle ==
    /\ pump = DefaultPump
    /\ hp = DefaultPump
    /\ data = <<>>
    /\ err = ""
    /\ pc = "idle"

PulseInit ==
    /\ FrameIdle
    /\ tol \in Tols
    /\ mesg = Raise("")
    /\ grabbed = <<>>
    /\ lirc = 0
    /\ \/ /\ req_bytes \in RoundTripFrames
          /\ values = <<>>
          /\ ppc = "request"
       \/ /\ req_bytes = <<>>
          /\ values \in DoubleInputs \cup JunkInputs \cup ToleranceInputs(tol)
          /\ ppc = "received"

\* encode(req_bytes)
Encode ==
    /\ ppc = "request"
    /\ values' = encode(req_bytes).ret
    /\ ppc' = "received"
    /\ UNCHANGED <<req_bytes, tol, mesg, grabbed, lirc>>
    /\ UNCHANGED frameVars

\* decode(values, tol)
Decode ==
    /\ ppc = "received"
    /\ mesg' = decode(values, tol)
    /\ ppc' = "decoded"
    /\ UNCHANGED <<req_bytes, values, tol, grabbed, lirc>>
    /\ UNCHANGED frameVars

PulseNext == Encode \/ Decode

PulseSpec == PulseInit /\ [][PulseNext]_vars

(***************************************************************************)
(* Claims about the frame codec, under FrameSpec.                          *)
(***************************************************************************)
\* "cool" in the documentation is "cold" in the dictionaries: either spelling
\* counts as the cool mode when the claims are stated
IsCool(m) == m \in {"cool", "cold"}
SameMode(a, b) == a = b \/ (IsCool(a) /\ IsCool(b))
AutoVaneCode(v) == BitAnd(B(v, 9), 120) \in {0, 64}

\* the documented domains and invariants of a state
DocumentedState(p) ==
    /\ p.hvac_mode \in Modes
    /\ p.temp \in 16..31
    /\ p.fan_speed \in 0..3
    /\ p.wide_vane \in DOMAIN WideVaneByte8
    /\ p.vane \in DOMAIN VaneByte9
    /\ p.econo_cool => (IsCool(p.hvac_mode) /\ p.vane = "auto")
    /\ p.long_mode => p.vane = "auto"

\* C1: for every state in its documented domains that respects the
\* documented invariants, to_bytes succeeds and loading its frame into a
\* fresh state succeeds and gives back isee, mode, temperature, wideVane,
\* fanSpeed, vane, econoCool, cleanMode, plasma and longMode.
C1_RoundTrip ==
    DocumentedState(pump) =>
        /\ pc # "encode_failed"
        /\ pc = "loaded" =>
              /\ err = ""
              /\ hp.isee = pump.isee
              /\ SameMode(hp.hvac_mode, pump.hvac_mode)
              /\ hp.temp = pump.temp
              /\ hp.wide_vane = pump.wide_vane
              /\ hp.fan_speed = pump.fan_speed
              /\ hp.vane = pump.vane
              /\ hp.econo_cool = pump.econo_cool
              /\ hp.clean_mode = pump.clean_mode
              /\ hp.plasma = pump.plasma
              /\ hp.long_mode = pump.long_mode

\* C3: /api/update rejects every frame whose byte 17 differs from the sum
\* of bytes 0-16 modulo 256.
C3_ChecksumRejected ==
    (pc = "updated" /\ B(data, 17) # Checksum(data)) => err # ""

\* the frame with the econo-cool bit of byte 14 cleared
WithoutEcono(v) == [v EXCEPT ![15] = v[15] - 32 * BitOf(v[15], 5)]

\* C8: an otherwise valid frame with the econo-cool bit (0x20 of byte 14)
\* set is accepted if and only if byte 6 carries the cool code (0x18) and
\* byte 9 an auto vane code, and then the state ends with econoCool = true.
C8_EconoCoolAccepted ==
    ( /\ pc = "updated"
      /\ BitOf(B(data, 14), 5) = 1
      /\ load_bytes(DefaultPump, WithoutEcono(data)).err = "" )
    => /\ (err = "") <=> (BitAnd(B(data, 6), 56) = 24 /\ AutoVaneCode(data))
       /\ (err = "") => pump.econo_cool

\* C9: a frame with the long-mode bit (0x10 of byte 15) set and a vane code
\* other than auto in byte 9 is rejected, so no accepted frame leaves
\* longMode = true with a vane other than auto.
C9_LongModeNeedsAutoVane ==
    pc = "updated" =>
        /\ (BitOf(B(data, 15), 4) = 1 /\ ~AutoVaneCode(data)) => err # ""
        /\ (err = "") => ~(pump.long_mode /\ pump.vane # "auto")

\* a bit of bytes 5-9 or 14-16 that no decoded field reads
UnmappedBitSet(v) ==
    \/ BitAnd(B(v, 5), 223) # 0
    \/ BitAnd(B(v, 6), 135) # 0
    \/ BitAnd(B(v, 7), 240) # 0
    \/ BitAnd(B(v, 8), 8) # 0
    \/ BitAnd(B(v, 9), 128) # 0
    \/ BitAnd(B(v, 14), 219) # 0
    \/ BitAnd(B(v, 15), 235) # 0
    \/ B(v, 16) # 0

\* C10: load_bytes fails for every frame in which a bit that maps to no
\* decoded field is set (such as 0x80 of byte 9 or 0x08 of byte 15).
C10_NoSilentCoercion ==
    (pc = "updated" /\ UnmappedBitSet(data)) => err # ""

(***************************************************************************)
(* Claims about the pulse codec, under PulseSpec.                          *)
(***************************************************************************)
HasPreamble(v) ==
    B(v, 0) = 35 /\ B(v, 1) = 203 /\ B(v, 2) = 38 /\ B(v, 3) = 1 /\ B(v, 4) = 0
ChecksumOk(v) == B(v, 17) = Checksum(v)
NearHeaderMark(d) == Abs(HVAC_MISTSUBISHI_HDR_MARK - d) < 2 * tol
GapOk == Abs(HVAC_MISTSUBISHI_RPT_SPACE - values[292]) < 2 * tol

\* C2, as claimed: every frame with the preamble and its reserved bits zero
\* comes back from decode(encode(frame)).
C2_PulseRoundTrip_AnyFrame ==
    ( /\ ppc = "decoded"
      /\ req_bytes # <<>>
      /\ HasPreamble(req_bytes)
      /\ ~UnmappedBitSet(req_bytes) )
    => mesg = Return(req_bytes)

\* C2, amended: every frame with the preamble, its reserved bits zero and
\* byte 17 equal to the checksum of bytes 0-16 comes back from
\* decode(encode(frame)).
C2_PulseRoundTrip ==
    ( /\ ppc = "decoded"
      /\ req_bytes # <<>>
      /\ HasPreamble(req_bytes)
      /\ ~UnmappedBitSet(req_bytes)
      /\ ChecksumOk(req_bytes) )
    => mesg = Return(req_bytes)

C2_Witness ==
    /\ ppc = "decoded"
    /\ req_bytes \in GoodFrames
    /\ B(req_bytes, 5) = 32
    /\ Len(values) = DOUBLE_LEN
    /\ mesg = Return(req_bytes)

\* the input is n >= 1 junk samples, none near the header mark, and then
\* the 291 samples of frame f
JunkThenFrame(f) ==
    LET n == Len(values) - FRAME_LEN
    IN  /\ n >= 1
        /\ SubSeq(values, n + 1, Len(values)) = Single(f)
        /\ \A i \in 1..n : ~NearHeaderMark(values[i])

\* C4, as claimed: junk samples, however many, followed by a valid frame
\* decode to that frame.
C4_HeaderSearch_AnyLength ==
    (ppc = "decoded" /\ req_bytes = <<>>)
    => \A f \in GoodFrames : JunkThenFrame(f) => mesg = Return(f)

\* C4, amended: junk samples followed by a valid frame decode to that
\* frame, unless there are 292 junk samples (583 samples in all, which are
\* taken as a double frame) and sample 291 is not within 2 x tolerance of
\* the repeat space.
C4_HeaderSearch ==
    (ppc = "decoded" /\ req_bytes = <<>>)
    => \A f \in GoodFrames :
          (JunkThenFrame(f) /\ (Len(values) # DOUBLE_LEN \/ GapOk))
          => mesg = Return(f)

C4_Witness ==
    /\ ppc = "decoded"
    /\ Len(values) > DOUBLE_LEN
    /\ \E f \in GoodFrames : JunkThenFrame(f) /\ mesg = Return(f)

\* the offsets (from 0) of the 291-sample candidates decode tries
Tried ==
    IF Len(values) = DOUBLE_LEN THEN IF GapOk THEN {0, 292} ELSE {}
    ELSE IF Len(values) > FRAME_LEN
    THEN LET heads == {i \in 0..(Len(values) - FRAME_LEN) : NearHeaderMark(values[i + 1])}
             good == {i \in heads : decode_single(SubSeq(values, i + 1, i + FRAME_LEN), tol).err = ""}
         IN  IF good = {} THEN heads ELSE {i \in heads : i <= Min(good)}
    ELSE {}
Candidate(i) == decode_single(SubSeq(values, i + 1, i + FRAME_LEN), tol)
BadSumTried == \E i \in Tried : Candidate(i).err = "Invalid checksum"

\* C5, as claimed: when a framed candidate of a double frame or of a
\* header-searched input fails its checksum, decode fails with that error.
C5_ChecksumErrorRaised ==
    (ppc = "decoded" /\ BadSumTried) => mesg.err = "Invalid checksum"

\* C5, amended: when a framed candidate fails its checksum the error is
\* caught like any other failure of a candidate: decode never raises it,
\* returns only the frame (with a good checksum) of another candidate that
\* decodes, and fails with "No valid codes found" or "Could not find valid
\* starting pulse" when no candidate decodes.
C5_ChecksumErrorCaught ==
    (ppc = "decoded" /\ BadSumTried) =>
        /\ mesg.err # "Invalid checksum"
        /\ mesg.err = "" =>
              /\ ChecksumOk(mesg.ret)
              /\ \E i \in Tried : Candidate(i) = mesg
        /\ (\A i \in Tried : Candidate(i).err # "") =>
              mesg.err = IF Len(values) = DOUBLE_LEN THEN "No valid codes found"
                         ELSE "Could not find valid starting pulse"

C5_Witness ==
    /\ ppc = "decoded"
    /\ Len(values) = DOUBLE_LEN
    /\ GapOk
    /\ Candidate(0).err = "Invalid checksum"
    /\ Candidate(292).err = ""
    /\ mesg = Candidate(292)

\* C6: a 583-sample input with a good repeat space decodes to the frame of
\* the only half that decodes, to the common frame when both halves decode
\* to the same bytes, and fails when the halves decode to different frames
\* or when neither decodes; a returned frame never differs from a half
\* that decoded.
C6_DoubleFrame ==
    (ppc = "decoded" /\ Len(values) = DOUBLE_LEN /\ GapOk) =>
        LET h1 == decode(SubSeq(values, 1, 291), tol)
            h2 == decode(SubSeq(values, 293, 583), tol)
        IN  /\ (h1.err = "" /\ h2.err # "") => mesg = Return(h1.ret)
            /\ (h1.err # "" /\ h2.err = "") => mesg = Return(h2.ret)
            /\ (h1.err = "" /\ h2.err = "" /\ h1.ret = h2.ret) => mesg = Return(h1.ret)
            /\ (h1.err = "" /\ h2.err = "" /\ h1.ret # h2.ret) => mesg.err # ""
            /\ (h1.err # "" /\ h2.err # "") => mesg.err # ""
            /\ mesg.err = "" =>
                  /\ h1.err = "" => mesg.ret = h1.ret
                  /\ h2.err = "" => mesg.ret = h2.ret

C6_Witness ==
    /\ ppc = "decoded"
    /\ Len(values) = DOUBLE_LEN
    /\ GapOk
    /\ decode(SubSeq(values, 1, 291), tol).err = ""
    /\ decode(SubSeq(values, 293, 583), tol).err = ""
    /\ decode(SubSeq(values, 1, 291), tol).ret # decode(SubSeq(values, 293, 583), tol).ret
    /\ mesg.err = "AssertionError"

\* C7: with tolerance tol, a 291-sample frame decodes only if every bit
\* mark is within tol of the bit mark and every bit space within tol of the
\* zero or the one space, and a frame whose only deviation is a zero space
\* of zero-space + tol - 1 decodes, that space read as 0.
C7_ToleranceBoundary ==
    (ppc = "decoded" /\ Len(values) = FRAME_LEN) =>
        /\ mesg.err = "" =>
              \A x \in 0..143 :
                 /\ Abs(HVAC_MISTSUBISHI_BIT_MARK - values[2 * x + 3]) < tol
                 /\ \/ Abs(HVAC_MISTSUBISHI_ZERO_SPACE - values[2 * x + 4]) < tol
                    \/ Abs(HVAC_MISTSUBISHI_ONE_SPACE - values[2 * x + 4]) < tol
        /\ \A f \in GoodFrames :
              values = Distort(Single(f), <<7, HVAC_MISTSUBISHI_ZERO_SPACE + tol - 1>>)
              => mesg = Return(f)

(***************************************************************************)
(* Claims about /api/update as a transaction, under FrameSpec.             *)
(***************************************************************************)
\* the state pairs econoCool only with the cool mode
EconoOnlyInCool(p) == p.econo_cool => IsCool(p.hvac_mode)

\* C11: a load_bytes call that fails leaves every field of the state as it
\* was before the call, so a failed call never leaves econoCool = true
\* together with a mode other than cool.
C11_AtomicApply ==
    [][(pc' = "updated" /\ err' # "") =>
          /\ pump' = pump
          /\ EconoOnlyInCool(pump) => EconoOnlyInCool(pump')]_vars

(***************************************************************************)
(* /api/set (server.py set()).  The update document request.json is a      *)
(* function from the keys it carries to their values.  A temp value is     *)
(* <<n>> for the number n and <<op, n>> for the two-element list [op, n].  *)
(* The fields of a HeatPump that hold integers are integers in the model,  *)
(* so the values the handler can store there that are not numbers are      *)
(* written as integers no number of a document takes: the string "auto"    *)
(* as for clock, a timer program name s as StrAsInt(s), and a bool as the  *)
(* integer it is in Python (True == 1, False == 0).                        *)
(***************************************************************************)
\* set_fan(fan): the argument "auto"
FanAuto == CLOCK_AUTO
ProgNames == <<"none", "start", "end", "startend">>
StrAsInt(s) == 0 - 10 - (CHOOSE i \in 1..Len(ProgNames) : ProgNames[i] = s)
IsStrAsInt(t) == t < 0 - 10
BoolAsInt(b) == IF b THEN 1 ELSE 0

Has(d, k) == k \in DOMAIN d

\* set_temperature(temp): the target is limited to 16..31
set_temperature(self, temp) ==
    [self EXCEPT !.temp = IF temp > 31 THEN 31 ELSE IF temp < 16 THEN 16 ELSE temp]

\* set_fan(fan): "auto" is 0, anything else has to be 0..3
set_fan(s, fan) ==
    IF fan = FanAuto THEN Keep(s, [s.self EXCEPT !.fan_speed = 0])
    ELSE IF ~(fan >= 0 /\ fan <= 3) THEN Fail(s, "AssertionError")
    ELSE Keep(s, [s.self EXCEPT !.fan_speed = fan])

\* the keys of the document are applied in the order of the source; a stage
\* takes and returns [self, err] as the stages of load_bytes do
SetOn(s, d) ==
    IF s.err # "" \/ ~Has(d, "on") THEN s
    ELSE Keep(s, [s.self EXCEPT !.on = d.on])

SetHvacMode(s, d) ==
    IF s.err # "" \/ ~Has(d, "hvac_mode") THEN s
    ELSE Keep(s, [s.self EXCEPT !.hvac_mode = d.hvac_mode])

SetTemp(s, d) ==
    IF s.err # "" \/ ~Has(d, "temp") THEN s
    ELSE IF Len(d.temp) = 2
         THEN IF d.temp[1] = "+"
              THEN Keep(s, set_temperature(s.self, s.self.temp + d.temp[2]))
              ELSE IF d.temp[1] # "-" THEN Fail(s, "AssertionError")
              ELSE Keep(s, set_temperature(s.self, s.self.temp - d.temp[2]))
         ELSE Keep(s, set_temperature(s.self, d.temp[1]))

SetWideVane(s, d) ==
    IF s.err # "" \/ ~Has(d, "wide_vane") THEN s
    ELSE Keep(s, [s.self EXCEPT !.wide_vane = d.wide_vane])

SetFanSpeed(s, d) ==
    IF s.err # "" \/ ~Has(d, "fan_speed") THEN s
    ELSE set_fan(s, d.fan_speed)

SetVane(s, d) ==
    IF s.err # "" \/ ~Has(d, "vane") THEN s
    ELSE Keep(s, [s.self EXCEPT !.vane = d.vane])

SetClock(s, d) ==
    IF s.err # "" \/ ~Has(d, "clock") THEN s
    ELSE Keep(s, [s.self EXCEPT !.clock = d.clock])

SetEndTime(s, d) ==
    IF s.err # "" \/ ~Has(d, "end_time") THEN s
    ELSE Keep(s, [s.self EXCEPT !.end_time = d.end_time])

\* lines 168-175: each of the four keys is stored in pump.end_time
SetStartTime(s, d) ==
    IF s.err # "" \/ ~Has(d, "start_time") THEN s
    ELSE Keep(s, [s.self EXCEPT !.end_time = d.start_time])

SetProg(s, d) ==
    IF s.err # "" \/ ~Has(d, "prog") THEN s
    ELSE Keep(s, [s.self EXCEPT !.end_time = StrAsInt(d.prog)])

SetEconoCool(s, d) ==
    IF s.err # "" \/ ~Has(d, "econo_cool") THEN s
    ELSE Keep(s, [s.self EXCEPT !.end_time = BoolAsInt(d.econo_cool)])

SetLongMode(s, d) ==
    IF s.err # "" \/ ~Has(d, "long_mode") THEN s
    ELSE Keep(s, [s.self EXCEPT !.end_time = BoolAsInt(d.long_mode)])

\* lines 145-175 of set()
set_fields(self, d) ==
    SetLongMode(SetEconoCool(SetProg(SetStartTime(SetEndTime(SetClock(SetVane(
        SetFanSpeed(SetWideVane(SetTemp(SetHvacMode(SetOn(
            [self |-> self, err |-> ""], d), d), d), d), d), d), d), d), d), d), d), d)

\* program_heatpump(): pump.encode() is to_bytes and then the pulse list,
\* which is written to the device.  A string in end_time makes the
\* comparison of heatpump.py line 107 raise: e is TypeError under Python 3 and, under
\* Python 2, where a string compares above every number, AssertionError.
program_heatpump(self, now, e) ==
    LET upto_clock == to_bytes([self EXCEPT !.end_time = 0, !.start_time = 0], now)
    IN  IF upto_clock.err # "" THEN upto_clock
        ELSE IF IsStrAsInt(self.end_time) THEN Raise(e)
        ELSE to_bytes(self, now)

StrCompareErrors == {"TypeError", "AssertionError"}

\* the values a client sends for each key
Samples ==
    [ on |-> <<TRUE, FALSE>>,
      hvac_mode |-> <<"heat", "cool">>,
      temp |-> << <<22>>, <<35>>, <<"+", 1>>, <<"-", 5>>, <<"*", 2>> >>,
      wide_vane |-> <<"swing", "left">>,
      fan_speed |-> <<FanAuto, 2, 7>>,
      vane |-> <<"up", "auto">>,
      clock |-> <<CLOCK_AUTO, 100>>,
      end_time |-> <<30, 143>>,
      start_time |-> <<6, 143>>,
      prog |-> <<"start", "none">>,
      econo_cool |-> <<TRUE, FALSE>>,
      long_mode |-> <<TRUE, FALSE>> ]
SetKeys == DOMAIN Samples
ApplyChoices == {"absent", "true", "false"}

\* the document with keys k1 and k2 (one key if they are the same), their
\* i1-th and i2-th value, and with or without 'apply'
Document(k1, i1, k2, i2, ap) ==
    [k \in {k1, k2} \cup (IF ap = "absent" THEN {} ELSE {"apply"}) |->
        IF k = "apply" THEN ap = "true"
        ELSE IF k = k1 THEN Samples[k1][i1]
        ELSE Samples[k2][i2]]

SetInit ==
    /\ pump \in Profiles
    /\ hp = DefaultPump
    /\ data = <<>>
    /\ err = ""
    /\ pc = "start"
    /\ PulseIdle

\* abort(400): an empty document, or one without 'apply'
SetAbort(d) ==
    /\ data' = d
    /\ err' = "400"
    /\ pc' = "aborted"
    /\ UNCHANGED <<pump, hp>>
    /\ UNCHANGED pulseVars

\* the fields are stored, then the state is sent if 'apply' is true
SetApply(d, now, e) ==
    LET s == set_fields(pump, d)
        sent == s.err = "" /\ d.apply
        frame == IF sent THEN program_heatpump(s.self, now, e) ELSE Raise(s.err)
        request == IF frame.err = "" /\ sent THEN encode(frame.ret) ELSE Raise(frame.err)
    IN  /\ data' = d
        /\ pump' = s.self
        /\ err' = request.err
        /\ req_bytes' = frame.ret
        /\ values' = request.ret
        /\ pc' = "set"
        /\ UNCHANGED <<hp, tol, mesg, ppc, grabbed, lirc>>

\* server.py set(), one POST to /api/set
Set ==
    /\ pc = "start"
    /\ \E k1 \in SetKeys, k2 \in SetKeys, ap \in ApplyChoices :
       \E i1 \in 1..Len(Samples[k1]), i2 \in 1..Len(Samples[k2]) :
       \E now \in Clocks, e \in StrCompareErrors :
          LET d == Document(k1, i1, k2, i2, ap)
          IN  IF ~Has(d, "apply") THEN SetAbort(d) ELSE SetApply(d, now, e)

SetNext == Set

SetSpec == SetInit /\ [][SetNext]_vars

(***************************************************************************)
(* Claims about /api/set, under SetSpec.                                   *)
(***************************************************************************)
\* C12: for each key of the update document the handler changes the field
\* of the same name and no other field; a document with only start_time,
\* prog, econo_cool or long_mode leaves end_time unchanged and sets the
\* named field to the given value.
C12_PartialUpdate ==
    [][pc' = "set" =>
          /\ \A k \in DOMAIN DefaultPump :
                ~Has(data', k) => pump'[k] = pump[k]
          /\ \A k \in {"start_time", "prog", "econo_cool", "long_mode"} :
                (DOMAIN data' = {k, "apply"}) =>
                    /\ pump'.end_time = pump.end_time
                    /\ pump'[k] = data'[k]]_vars

(***************************************************************************)
(* The acquisition loop: receiver() of server.py and the main loop of      *)
(* recordpump.py, which frame the samples the same way and differ in what  *)
(* their decode(values) does with a decoded frame.  One step is one turn   *)
(* of the loop: select() returns with a sample to read, or times out.      *)
(* The device delivers a fixed list of raw samples, Transmit(req_bytes):   *)
(* what is received while the remote control sends the frame req_bytes.    *)
(* pc is the program that runs the loop; ppc tells how the last turn       *)
(* ended; values and mesg are the argument and the outcome of the          *)
(* HeatPump.decode call of the last turn, if it made one.                  *)
(***************************************************************************)
PULSE_BIT == 16777216
PULSE_MASK == 16777215
\* a sample above this is dropped
NOISE_LIMIT == 1000000
\* the buffer is handed over as soon as it has this many samples
GRAB_FULL == 583
\* and on a timeout if it has at least this many
GRAB_MIN == 291
\* how many samples of a second transmission follow the first
MaxTrail == 3

\* as_int & PULSE_MASK on the signed integer struct.unpack('i') returns
Masked(raw) == raw % (PULSE_MASK + 1)

\* lirc mode2: a pulse has PULSE_BIT set, a space has not
RawPulses(e) == [i \in 1..Len(e) |-> IF i % 2 = 1 THEN e[i] + PULSE_BIT ELSE e[i]]
\* before the transmission: a long space, a space of just the limit, one above
Lead == <<2000000, NOISE_LIMIT, NOISE_LIMIT + 1>>
Transmit(bytes) ==
    LET e == RawPulses(encode(bytes).ret)
    IN  Lead \o e \o <<0 - 1>> \o SubSeq(e, 1, MaxTrail)
\* the sender pauses long enough for select() to time out only after this
\* many samples, or when all have been read
IdleAfter ==
    { 0, Len(Lead), Len(Lead) + 100,
      Len(Lead) + GRAB_MIN - 1, Len(Lead) + GRAB_MIN, Len(Lead) + GRAB_MIN + 1,
      Len(Lead) + GRAB_FULL - 1, Len(Lead) + GRAB_FULL }

RecvFrames ==
    { to_bytes([DefaultPump EXCEPT !.on = TRUE, !.hvac_mode = "heat", !.temp = 24], 0).ret,
      FlipBit(to_bytes(DefaultPump, 0).ret, 7, 0) }
Programs == {"server", "recordpump"}

RecvInit ==
    /\ pump = DefaultPump
    /\ hp = DefaultPump
    /\ data = <<>>
    /\ err = ""
    /\ pc \in Programs
    /\ req_bytes \in RecvFrames
    /\ values = <<>>
    /\ tol = DefaultTol
    /\ mesg = Raise("")
    /\ ppc = "idle"
    /\ grabbed = <<>>
    /\ lirc = 0

\* decode(g) of the program pc.  server.py posts a decoded frame to its own
\* /api/update, which loads it into pump; posted is whether the request got
\* through (a failure of urlopen is swallowed).  recordpump.py loads the
\* frame into a fresh HeatPump.  A failure of HeatPump.decode returns.
HandOver(g, posted) ==
    LET cur == decode(g, DefaultTol)
    IN  /\ values' = g
        /\ mesg' = cur
        /\ IF cur.err # "" \/ (pc = "server" /\ ~posted)
           THEN UNCHANGED <<pump, hp, data, err>>
           ELSE IF pc = "server"
           THEN LET r == load_bytes(pump, cur.ret)
                IN  /\ data' = cur.ret
                    /\ pump' = r.self
                    /\ err' = r.err
                    /\ UNCHANGED hp
           ELSE LET r == load_bytes(DefaultPump, cur.ret)
                IN  /\ data' = cur.ret
                    /\ hp' = r.self
                    /\ err' = r.err
                    /\ UNCHANGED pump

\* a turn of the loop that does not call decode
NoDecode ==
    /\ values' = <<>>
    /\ mesg' = Raise("")
    /\ UNCHANGED <<pump, hp, data, err>>

\* select() returns the device: one sample is read, masked, dropped if it is
\* above the limit and appended otherwise; the 583rd sample of the buffer
\* hands it over and empties it
RecvSample ==
    /\ pc \in Programs
    /\ lirc < Len(Transmit(req_bytes))
    /\ lirc' = lirc + 1
    /\ LET as_int == Masked(Transmit(req_bytes)[lirc + 1])
       IN  IF as_int > NOISE_LIMIT
           THEN /\ grabbed' = grabbed
                /\ ppc' = "discarded"
                /\ NoDecode
           ELSE IF Len(Append(grabbed, as_int)) = GRAB_FULL
           THEN /\ \E posted \in BOOLEAN : HandOver(Append(grabbed, as_int), posted)
                /\ grabbed' = <<>>
                /\ ppc' = "flushed"
           ELSE /\ grabbed' = Append(grabbed, as_int)
                /\ ppc' = "appended"
                /\ NoDecode
    /\ UNCHANGED <<req_bytes, tol, pc>>

\* a faulty variant of RecvTimeout: a buffer too short to decode is kept
RecvTimeoutKeepsShort ==
    /\ pc \in Programs
    /\ lirc \in IdleAfter \/ lirc = Len(Transmit(req_bytes))
    /\ IF Len(grabbed) >= GRAB_MIN
       THEN /\ \E posted \in BOOLEAN : HandOver(grabbed, posted)
            /\ ppc' = "timeout_decoded"
            /\ grabbed' = <<>>
       ELSE /\ NoDecode
            /\ ppc' = "timeout"
            /\ grabbed' = grabbed
    /\ UNCHANGED <<lirc, req_bytes, tol, pc>>

\* select() times out: a buffer of at least 291 samples is handed over, and
\* the buffer is emptied in either case
RecvTimeout ==
    /\ pc \in Programs
    /\ lirc \in IdleAfter \/ lirc = Len(Transmit(req_bytes))
    /\ IF Len(grabbed) >= GRAB_MIN
       THEN /\ \E posted \in BOOLEAN : HandOver(grabbed, posted)
            /\ ppc' = "timeout_decoded"
       ELSE /\ NoDecode
            /\ ppc' = "timeout"
    /\ grabbed' = <<>>
    /\ UNCHANGED <<lirc, req_bytes, tol, pc>>

RecvNext == RecvSample \/ RecvTimeout

RecvSpec == RecvInit /\ [][RecvNext]_vars

(***************************************************************************)
(* Claims about the acquisition loop, under RecvSpec.                      *)
(***************************************************************************)
\* C13: the sample buffer never holds more than 583 samples; the pulse
\* decode is invoked only on a buffer of exactly 583 samples, in the turn
\* that appends the 583rd, or on an idle timeout on a buffer of 291 to 582
\* samples; the buffer is empty after every such flush and after every
\* idle timeout.
C13_Framing ==
    /\ Len(grabbed) <= 583
    /\ ppc = "appended" => Len(grabbed) < 583
    /\ values # <<>> =>
          \/ ppc = "flushed" /\ Len(values) = 583
          \/ ppc = "timeout_decoded" /\ Len(values) >= 291 /\ Len(values) <= 582
    /\ ppc \in {"flushed", "timeout_decoded"} => values # <<>>
    /\ ppc \in {"flushed", "timeout_decoded", "timeout"} => grabbed = <<>>

\* the whole transmission is read without a pause: the 583rd sample hands
\* the buffer over, the frame sent is decoded, and the buffer is empty
C13_Witness ==
    /\ ppc = "flushed"
    /\ Len(values) = 583
    /\ mesg = Return(req_bytes)
    /\ grabbed = <<>>
    /\ lirc = Len(Lead) + 583

====
